---- MODULE Spec2Model ----
(***************************************************************************)
(* A model of the owned-buffer I/O layer (crates/hring-buffet/src/io.rs)   *)
(* and of the connection frame pump (crates/httpwg/src/lib.rs).            *)
(*                                                                         *)
(* Spec      the retry helpers write_all, writev and writev_all over a     *)
(*           sink whose write may be partial, report zero or fail.         *)
(* SpecPump  the background read loop of Conn::new feeding the event queue *)
(*           of capacity 1, and an owner that receives from it.            *)
(* SpecConn  a connection whose owner calls handshake(): the read loop, the *)
(*           write helpers over the write half, and the handshake.         *)
(***************************************************************************)
EXTENDS Integers, Sequences, FiniteSets, TLC

\* ------------------------------------------------------------------ bounds
\* Inputs of the I/O layer: at most MaxBufs buffers of at most MaxBufLen bytes.
MaxBufs == 3
MaxBufLen == 3
\* Streams of the read loop: at most MaxFrames whole frames, each with a payload
\* of at most MaxPayload bytes, then nothing, a cut-off frame or a bad header.
MaxFrames == 2
MaxPayload == 2

\* The connection's owner makes at most MaxCalls calls of handshake, write_frame
\* and send.
MaxCalls == 2

VARIABLES
    op,        \* the helper the caller invoked: "none", "write_all", "writev", "writev_all"
    wpc,       \* where the helper is suspended: "idle", "write_all", "writev", "done"
    input,     \* the list of buffers handed to the helper (a write_all has one)
    wa_buf,    \* write_all: buf
    written,   \* write_all: written
    wv_list,   \* writev: the iterator `list` (what list.next() has not yielded yet)
    wv_out,    \* writev: out_list
    wv_total,  \* writev: total
    result,    \* the value the helper returned, once wpc = "done"
    sink,      \* every byte the write half has accepted, in order
    calls,     \* one record per underlying write call: the length offered, the outcome
    peer,      \* what the peer sends: its whole frames, and the tail after them
    stream,    \* every byte the peer sends before it closes, in order
    rpos,      \* how many bytes of stream the read half has handed out
    res_buf,   \* recv_fut: res_buf (the filled bytes)
    eof,       \* recv_fut: eof
    rpc,       \* recv_fut: "loop" (top of 'read), "payload", "send", "done"
    exit,      \* how recv_fut ended: "none" while it runs
    frame,     \* recv_fut: frame, the header parsed last
    pending,   \* the event ev_tx.send is suspended on
    queue,     \* the events in the channel, oldest first
    tx_open,   \* whether ev_tx is still alive
    recvd,     \* every event ev_rx.recv() has returned, in order
    closed,    \* whether ev_rx.recv() has returned None
    h_pc,      \* handshake: "none" (no connection), "idle", "preface", "settings",
               \* "recv", "ack", and how it ended: "ok", "err", "panic"
    eof_reads, \* how many reads were submitted after a read had returned 0
    ocalls     \* one record per call of a Conn method: which, its arguments, and
               \* how many bytes the write half had accepted when it was called

iovars == <<op, wpc, input, wa_buf, written, wv_list, wv_out, wv_total, result, sink, calls>>

pumpvars == <<peer, stream, rpos, res_buf, eof, rpc, exit, frame, pending, queue, tx_open, eof_reads>>

ownervars == <<recvd, closed, h_pc, ocalls>>

vars == <<iovars, pumpvars, ownervars>>

\* ----------------------------------------------------------------- helpers
RECURSIVE Flatten(_)
\* The concatenation of a list of byte sequences.
Flatten(ss) == IF ss = <<>> THEN <<>> ELSE Head(ss) \o Flatten(Tail(ss))

RECURSIVE SumLens(_)
SumLens(ss) == IF ss = <<>> THEN 0 ELSE Len(Head(ss)) + SumLens(Tail(ss))

IsPrefix(s, t) == Len(s) <= Len(t) /\ SubSeq(t, 1, Len(s)) = s

\* The bytes first+1 .. first+n: every byte of an input is distinct, so a lost,
\* duplicated or reordered byte shows in the sink.
Bytes(first, n) == [i \in 1..n |-> first + i]

RECURSIVE MkList(_, _)
\* The list of buffers whose lengths are lens, numbered on from byte first+1.
MkList(lens, first) ==
    IF lens = <<>> THEN <<>>
    ELSE <<Bytes(first, Head(lens))>> \o MkList(Tail(lens), first + Head(lens))

LenSeqs == UNION {[1..k -> 0..MaxBufLen] : k \in 0..MaxBufs}

\* The lists of buffers a caller may pass (empty buffers and the empty list included).
Inputs == {MkList(lens, 0) : lens \in LenSeqs}

\* ------------------------------------------------------------- BufOrSlice
\* enum BufOrSlice { Buf(B), Slice(Slice<B>) }: a Slice of b.slice(n..) begins at n.
Buf(b) == [tag |-> "Buf", buf |-> b, begin |-> 0]
Slice(b, n) == [tag |-> "Slice", buf |-> b, begin |-> n]

\* BufOrSlice::len: b.bytes_init() for a Buf, the slice's length for a Slice.
ItemLen(item) == Len(item.buf) - item.begin

\* IoBuf for BufOrSlice (stable_ptr, bytes_init): the region a write is offered.
Region(item) == SubSeq(item.buf, item.begin + 1, Len(item.buf))

\* A consume that takes n for the new offset of a slice.
MutConsume(item, n) == Slice(item.buf, n)

\* BufOrSlice::consume, past its assert!(n <= self.len()).
Consume(item, n) ==
    IF item.tag = "Buf" THEN Slice(item.buf, n)
    ELSE Slice(item.buf, item.begin + n)

\* The assert!(n <= self.len()) at the head of consume.
ConsumeAssert(item, n) == n <= ItemLen(item)

\* ---------------------------------------------------------------- results
NoResult == [kind |-> "none", n |-> 0, list |-> <<>>]
Ok(n, list) == [kind |-> "ok", n |-> n, list |-> list]
WriteZero(list) == [kind |-> "write_zero", n |-> 0, list |-> list]
IoErr(list) == [kind |-> "io_error", n |-> 0, list |-> list]
Panic(list) == [kind |-> "panic", n |-> 0, list |-> list]

\* ------------------------------------------------------- WriteOwned::write
IoError == -1

\* What one write of a region of len bytes may report: Ok(n) with n <= len
\* (a partial write, or zero), or an I/O error.
WriteOutcomes(len) == (0..len) \cup {IoError}

\* The sink after the write accepted r bytes of region.
SinkAfter(region, r) == IF r = IoError THEN sink ELSE sink \o SubSeq(region, 1, r)

\* The log of write calls, kept for a helper called on its own (not for the
\* writes of a connection).
CallsAfter(region, r) ==
    IF h_pc = "none" THEN Append(calls, [len |-> Len(region), n |-> r])
    ELSE calls

\* --------------------------------------------------- WriteOwned::write_all
\* A write_all that offers the buffer from its start again on every round.
MutWriteAllRegion(buf, w, len) == SubSeq(buf, 1, len - w)

\* A write_all that takes a report of 0 bytes for a round to try again.
MutWriteAllAfter(w, len, r) ==
    IF r = IoError THEN [written |-> w, wpc |-> "done", result |-> IoErr(<<>>)]
    ELSE IF w + r < len THEN [written |-> w + r, wpc |-> "write_all", result |-> NoResult]
    ELSE [written |-> w + r, wpc |-> "done", result |-> Ok(0, <<>>)]

\* buf.slice(written..len): the unwritten suffix a round of write_all offers.
WriteAllRegion(buf, w, len) == SubSeq(buf, w + 1, len)

\* The body of the while loop after the write reported r: `res?`, the n == 0
\* test, written += n, and the loop test written < len.
WriteAllAfter(w, len, r) ==
    IF r = IoError THEN [written |-> w, wpc |-> "done", result |-> IoErr(<<>>)]
    ELSE IF r = 0 THEN [written |-> w, wpc |-> "done", result |-> WriteZero(<<>>)]
    ELSE IF w + r < len THEN [written |-> w + r, wpc |-> "write_all", result |-> NoResult]
    ELSE [written |-> w + r, wpc |-> "done", result |-> Ok(0, <<>>)]

\* write_all(buf) up to its first write: written = 0, len = buf.bytes_init().
StartWriteAll(buf) ==
    /\ op' = "write_all"
    /\ input' = <<buf>>
    /\ wa_buf' = buf
    /\ written' = 0
    /\ wpc' = IF 0 < Len(buf) THEN "write_all" ELSE "done"
    /\ result' = IF 0 < Len(buf) THEN NoResult ELSE Ok(0, <<>>)
    /\ UNCHANGED <<wv_list, wv_out, wv_total, sink, calls>>

\* One round of write_all: the write of the remaining suffix and what follows it.
write_all_write ==
    /\ wpc = "write_all"
    /\ LET len == Len(wa_buf)
           region == WriteAllRegion(wa_buf, written, len)
       IN \E r \in WriteOutcomes(Len(region)) :
            LET a == WriteAllAfter(written, len, r)
            IN /\ sink' = SinkAfter(region, r)
               /\ calls' = CallsAfter(region, r)
               /\ written' = a.written
               /\ wpc' = a.wpc
               /\ result' = a.result
    /\ UNCHANGED <<op, input, wa_buf, wv_list, wv_out, wv_total>>
    /\ UNCHANGED <<pumpvars, ownervars>>

\* ------------------------------------------------------ WriteOwned::writev
\* A writev that, stopping on a partial write, returns only the elements it has
\* written to and leaves out the untouched rest of the list.
MutWritevAfter(list, out, total, r) ==
    LET buf == Head(list)
        buf_len == ItemLen(buf)
        rest == Tail(list)
        out1 == Append(out, buf)
    IN IF r = IoError
       THEN [ret |-> TRUE, res |-> IoErr(out1 \o rest), list |-> <<>>, out |-> <<>>, total |-> 0]
       ELSE IF r = 0
       THEN [ret |-> TRUE, res |-> WriteZero(out1 \o rest), list |-> <<>>, out |-> <<>>, total |-> 0]
       ELSE IF r < buf_len
       THEN [ret |-> TRUE, res |-> Ok(total + r, out1), list |-> <<>>, out |-> <<>>, total |-> 0]
       ELSE IF rest = <<>>
       THEN [ret |-> TRUE, res |-> Ok(total + r, out1), list |-> <<>>, out |-> <<>>, total |-> 0]
       ELSE [ret |-> FALSE, res |-> NoResult, list |-> rest, out |-> out1, total |-> total + r]

\* One turn of `while let Some(buf) = list.next()` after the write of buf
\* reported r: ret says whether writev returns, res is what it returns.
WritevAfter(list, out, total, r) ==
    LET buf == Head(list)
        buf_len == ItemLen(buf)
        rest == Tail(list)
        out1 == Append(out, buf)
    IN IF r = IoError
       THEN [ret |-> TRUE, res |-> IoErr(out1 \o rest), list |-> <<>>, out |-> <<>>, total |-> 0]
       ELSE IF r = 0
       THEN [ret |-> TRUE, res |-> WriteZero(out1 \o rest), list |-> <<>>, out |-> <<>>, total |-> 0]
       ELSE IF r < buf_len
       THEN [ret |-> TRUE, res |-> Ok(total + r, out1 \o rest), list |-> <<>>, out |-> <<>>, total |-> 0]
       ELSE IF rest = <<>>
       THEN [ret |-> TRUE, res |-> Ok(total + r, out1), list |-> <<>>, out |-> <<>>, total |-> 0]
       ELSE [ret |-> FALSE, res |-> NoResult, list |-> rest, out |-> out1, total |-> total + r]

\* -------------------------------------------------- WriteOwned::writev_all
RECURSIVE MutDistribute(_, _)
\* A pass that does not set n to 0 after it advanced an element.
MutDistribute(list, n) ==
    IF list = <<>> THEN [list |-> <<>>, n |-> n, ok |-> TRUE]
    ELSE LET item == Head(list)
             item_len == ItemLen(item)
         IN IF n = 0
            THEN LET d == MutDistribute(Tail(list), 0)
                 IN [d EXCEPT !.list = <<item>> \o d.list]
            ELSE IF n >= item_len
            THEN MutDistribute(Tail(list), n - item_len)
            ELSE LET d == MutDistribute(Tail(list), n)
                 IN [d EXCEPT !.list = <<Consume(item, n)>> \o d.list,
                              !.ok = d.ok /\ ConsumeAssert(item, n)]

\* A pass that keeps the list as writev returned it.
MutDistributeKeep(list, n) == [list |-> list, n |-> 0, ok |-> TRUE]

RECURSIVE Distribute(_, _)
\* The filter_map pass of writev_all over the list writev returned, n being the
\* byte count it reported: the list kept, what is left of n, and whether every
\* consume met its assertion.
Distribute(list, n) ==
    IF list = <<>> THEN [list |-> <<>>, n |-> n, ok |-> TRUE]
    ELSE LET item == Head(list)
             item_len == ItemLen(item)
         IN IF n = 0
            THEN LET d == Distribute(Tail(list), 0)
                 IN [d EXCEPT !.list = <<item>> \o d.list]
            ELSE IF n >= item_len
            THEN Distribute(Tail(list), n - item_len)
            ELSE LET d == Distribute(Tail(list), 0)
                 IN [d EXCEPT !.list = <<Consume(item, n)>> \o d.list,
                              !.ok = d.ok /\ ConsumeAssert(item, n)]

\* writev_all after `(res, list) = self.writev(list).await`: `res?`, the n == 0
\* test, the distribution pass with its assert_eq!(n, 0), and the loop test.
\* next is the list of the next round when the loop goes on.
WritevAllAfter(res) ==
    IF res.kind # "ok" THEN [wpc |-> "done", result |-> [res EXCEPT !.list = <<>>], next |-> <<>>]
    ELSE IF res.n = 0 THEN [wpc |-> "done", result |-> WriteZero(<<>>), next |-> <<>>]
    ELSE LET d == Distribute(res.list, res.n)
         IN IF ~d.ok \/ d.n # 0
            THEN [wpc |-> "done", result |-> Panic(<<>>), next |-> <<>>]
            ELSE IF d.list = <<>>
            THEN [wpc |-> "done", result |-> Ok(0, <<>>), next |-> <<>>]
            ELSE [wpc |-> "writev", result |-> NoResult, next |-> d.list]

\* list.into_iter().map(BufOrSlice::Buf).collect()
WrapAll(list) == [i \in 1..Len(list) |-> Buf(list[i])]

\* writev(list) up to its first write; an empty list returns (Ok(0), []) at once.
StartWritev(list) ==
    /\ op' = "writev"
    /\ input' = list
    /\ wv_list' = WrapAll(list)
    /\ wv_out' = <<>>
    /\ wv_total' = 0
    /\ wpc' = IF list = <<>> THEN "done" ELSE "writev"
    /\ result' = IF list = <<>> THEN Ok(0, <<>>) ELSE NoResult
    /\ UNCHANGED <<wa_buf, written, sink, calls>>

\* writev_all(list) up to the first write of its first writev.
StartWritevAll(list) ==
    /\ op' = "writev_all"
    /\ input' = list
    /\ wv_list' = WrapAll(list)
    /\ wv_out' = <<>>
    /\ wv_total' = 0
    /\ wpc' = IF list = <<>> THEN "done" ELSE "writev"
    /\ result' = IF list = <<>> THEN Ok(0, <<>>) ELSE NoResult
    /\ UNCHANGED <<wa_buf, written, sink, calls>>

\* One write of writev and what follows it: the next turn of writev's loop, or
\* writev's return, and then (under writev_all) the caller's round.
writev_write ==
    /\ wpc = "writev"
    /\ LET region == Region(Head(wv_list))
       IN \E r \in WriteOutcomes(Len(region)) :
            LET a == WritevAfter(wv_list, wv_out, wv_total, r)
                b == WritevAllAfter(a.res)
            IN /\ sink' = SinkAfter(region, r)
               /\ calls' = CallsAfter(region, r)
               /\ IF ~a.ret
                  THEN /\ wv_list' = a.list
                       /\ wv_out' = a.out
                       /\ wv_total' = a.total
                       /\ UNCHANGED <<wpc, result>>
                  ELSE IF op = "writev"
                  THEN /\ wpc' = "done"
                       /\ result' = a.res
                       /\ wv_list' = <<>>
                       /\ wv_out' = <<>>
                       /\ wv_total' = 0
                  ELSE /\ wpc' = b.wpc
                       /\ result' = b.result
                       /\ wv_list' = b.next
                       /\ wv_out' = <<>>
                       /\ wv_total' = 0
    /\ UNCHANGED <<op, input, wa_buf, written>>
    /\ UNCHANGED <<pumpvars, ownervars>>


\* ------------------------------------------------------------ frame codec
\* The 9-byte frame header: a 3-byte length, a type, the flags and a 4-byte
\* stream identifier.
HeaderLen == 9
TypeData == 0
TypeSettings == 4
\* A type byte the header parser rejects with a decode error.
TypeMalformed == 255
FlagAck == 1

MkFrame(type, flags, id, len) == [len |-> len, frame_type |-> type, flags |-> flags, stream_id |-> id]
NoFrame == MkFrame(0, 0, 0, 0)

\* Frame::into_piece: the header on the wire.
EncodeHeader(f) ==
    <<f.len \div 65536, (f.len \div 256) % 256, f.len % 256, f.frame_type, f.flags,
      0, 0, f.stream_id \div 256, f.stream_id % 256>>

\* Frame::parse over the buffered prefix: need-more-data, a decode error, or the
\* frame and the bytes after its header.
Parse(buf) ==
    IF Len(buf) < HeaderLen THEN [kind |-> "incomplete", frame |-> NoFrame, rest |-> <<>>]
    ELSE IF buf[4] = TypeMalformed THEN [kind |-> "error", frame |-> NoFrame, rest |-> <<>>]
    ELSE [kind |-> "ok",
          frame |-> MkFrame(buf[4], buf[5], buf[8] * 256 + buf[9],
                            buf[1] * 65536 + buf[2] * 256 + buf[3]),
          rest |-> SubSeq(buf, HeaderLen + 1, Len(buf))]

\* ------------------------------------------------------------ the streams
\* The k-th frame of a stream: stream id k, payload bytes 10k+1, 10k+2, ...
WireFrame(k, type, flags, len) ==
    [frame |-> MkFrame(type, flags, k, len), payload |-> Bytes(10 * k, len)]

FrameBytes(wf) == EncodeHeader(wf.frame) \o wf.payload

RECURSIVE WireBytes(_)
WireBytes(wfs) == IF wfs = <<>> THEN <<>> ELSE FrameBytes(Head(wfs)) \o WireBytes(Tail(wfs))

\* The sequences of whole frames a peer may send to the read loop.
PumpFrameSeqs ==
    {[k \in 1..Len(lens) |-> WireFrame(k, TypeData, 0, lens[k])] :
        lens \in UNION {[1..n -> 0..MaxPayload] : n \in 0..MaxFrames}}

\* What may follow the whole frames: nothing, a frame (of the longest payload)
\* cut off anywhere before its end, or a header the parser rejects, alone or
\* with a whole frame after it.
Tails(k) ==
    {<<>>}
    \cup {SubSeq(FrameBytes(WireFrame(k, TypeData, 0, MaxPayload)), 1, cut) :
            cut \in 1..(HeaderLen + MaxPayload - 1)}
    \cup {FrameBytes(WireFrame(k, TypeMalformed, 0, 0))}
    \cup {FrameBytes(WireFrame(k, TypeMalformed, 0, 0))
            \o FrameBytes(WireFrame(k + 1, TypeData, 0, 1))}

\* A stream is described by its whole frames and its tail.
PumpStreams ==
    {[frames |-> wfs, tail |-> t] : wfs \in PumpFrameSeqs, t \in Tails(MaxFrames + 1)}

NoPeer == [frames |-> <<>>, tail |-> <<>>]

\* ------------------------------------------------------ ReadOwned::read
ReadMax == 16384
ReadError == -1

Min(a, b) == IF a < b THEN a ELSE b

\* What one read may report: between 1 byte and what the peer has still to send
\* (at most ReadMax), 0 once the peer has sent everything, or an I/O error.
ReadOutcomes ==
    (IF rpos < Len(stream) THEN 1..Min(ReadMax, Len(stream) - rpos) ELSE {0})
    \cup {ReadError}

\* read_into: the buffer with the n bytes read appended.
ReadInto(buf, n) == buf \o SubSeq(stream, rpos + 1, rpos + n)

\* ------------------------------------------------------------- Conn::new
FrameEv(f, payload) == [kind |-> "Frame", frame |-> f, payload |-> payload]
NoEv == [kind |-> "none", frame |-> NoFrame, payload |-> <<>>]

PumpState(pc, how, buf, f, ev) ==
    [rpc |-> pc, exit |-> how, buf |-> buf, frame |-> f, pending |-> ev]

\* A take_at_most that hands out everything that is buffered.
MutTakeAtMost(buf, frame_len) == buf

\* res_buf.take_at_most(frame_len): at most frame_len bytes off the front.
TakeAtMost(buf, frame_len) == SubSeq(buf, 1, Min(frame_len, Len(buf)))

\* An emit that copies the payload and leaves its bytes in the buffer.
MutEmit(buf, f) ==
    LET payload == SubSeq(buf, 1, Min(f.len, Len(buf)))
    IN IF Len(payload) # f.len
       THEN PumpState("done", "panic_assert", buf, f, NoEv)
       ELSE PumpState("send", "none", buf, f, FrameEv(f, payload))

\* The payload is complete: take_at_most, assert_eq!(payload.len(), frame_len),
\* and the event handed to ev_tx.send.
Emit(buf, f) ==
    LET payload == TakeAtMost(buf, f.len)
        rest == SubSeq(buf, Len(payload) + 1, Len(buf))
    IN IF Len(payload) # f.len
       THEN PumpState("done", "panic_assert", buf, f, NoEv)
       ELSE PumpState("send", "none", rest, f, FrameEv(f, payload))

\* A turn that takes an incomplete header at EOF for the end of the stream.
MutHeaderStepBreak(buf, e) ==
    IF e /\ buf = <<>> THEN PumpState("done", "eof", buf, NoFrame, NoEv)
    ELSE LET p == Parse(buf)
         IN IF p.kind = "ok"
            THEN (IF Len(p.rest) < p.frame.len
                  THEN PumpState("payload", "none", p.rest, p.frame, NoEv)
                  ELSE Emit(p.rest, p.frame))
            ELSE IF p.kind = "incomplete"
            THEN (IF e THEN PumpState("done", "eof", buf, NoFrame, NoEv)
                  ELSE PumpState("loop", "none", buf, NoFrame, NoEv))
            ELSE PumpState("done", "parse_error", buf, NoFrame, NoEv)

\* A turn without the `eof && res_buf.is_empty()` test.
MutHeaderStepNoEofTest(buf, e) ==
    LET p == Parse(buf)
    IN IF p.kind = "ok"
       THEN (IF Len(p.rest) < p.frame.len
             THEN PumpState("payload", "none", p.rest, p.frame, NoEv)
             ELSE Emit(p.rest, p.frame))
       ELSE IF p.kind = "incomplete"
       THEN (IF e THEN PumpState("done", "panic_header", buf, NoFrame, NoEv)
             ELSE PumpState("loop", "none", buf, NoFrame, NoEv))
       ELSE PumpState("done", "parse_error", buf, NoFrame, NoEv)

\* A turn that skips a header it cannot decode and goes on with the bytes after it.
MutHeaderStepSkip(buf, e) ==
    IF e /\ buf = <<>> THEN PumpState("done", "eof", buf, NoFrame, NoEv)
    ELSE LET p == Parse(buf)
         IN IF p.kind = "ok"
            THEN (IF Len(p.rest) < p.frame.len
                  THEN PumpState("payload", "none", p.rest, p.frame, NoEv)
                  ELSE Emit(p.rest, p.frame))
            ELSE IF p.kind = "incomplete"
            THEN (IF e THEN PumpState("done", "panic_header", buf, NoFrame, NoEv)
                  ELSE PumpState("loop", "none", buf, NoFrame, NoEv))
            ELSE PumpState("loop", "none", SubSeq(buf, HeaderLen + 1, Len(buf)), NoFrame, NoEv)

\* One turn of 'read after its read, up to the next await: the eof test, the
\* parse, and the branch taken.
HeaderStep(buf, e) ==
    IF e /\ buf = <<>> THEN PumpState("done", "eof", buf, NoFrame, NoEv)
    ELSE LET p == Parse(buf)
         IN IF p.kind = "ok"
            THEN (IF Len(p.rest) < p.frame.len
                  THEN PumpState("payload", "none", p.rest, p.frame, NoEv)
                  ELSE Emit(p.rest, p.frame))
            ELSE IF p.kind = "incomplete"
            THEN (IF e THEN PumpState("done", "panic_header", buf, NoFrame, NoEv)
                  ELSE PumpState("loop", "none", buf, NoFrame, NoEv))
            ELSE PumpState("done", "parse_error", buf, NoFrame, NoEv)

\* One turn of the payload loop after its read reported n.
PayloadStep(buf, f, n) ==
    IF n = 0 /\ Len(buf) < f.len THEN PumpState("done", "panic_payload", buf, f, NoEv)
    ELSE IF Len(buf) < f.len THEN PumpState("payload", "none", buf, f, NoEv)
    ELSE Emit(buf, f)

\* A pump whose sending end outlives recv_fut.
MutPumpGoes(st) ==
    /\ rpc' = st.rpc
    /\ exit' = st.exit
    /\ res_buf' = st.buf
    /\ frame' = st.frame
    /\ pending' = st.pending
    /\ tx_open' = TRUE

\* The pump moves to state st; ev_tx is dropped when recv_fut ends.
PumpGoes(st) ==
    /\ rpc' = st.rpc
    /\ exit' = st.exit
    /\ res_buf' = st.buf
    /\ frame' = st.frame
    /\ pending' = st.pending
    /\ tx_open' = (st.rpc # "done")

\* `let n = res?` on a failed read: recv_fut returns the error, which the
\* spawned task unwraps.
ReadFailed == PumpState("done", "io_error", res_buf, frame, NoEv)

\* The top of 'read: the read (unless eof), and the turn that follows.
pump_loop ==
    /\ rpc = "loop"
    /\ IF ~eof
       THEN \E n \in ReadOutcomes :
              IF n = ReadError
              THEN PumpGoes(ReadFailed) /\ UNCHANGED <<eof, rpos>>
              ELSE /\ rpos' = rpos + n
                   /\ eof' = (n = 0)
                   /\ PumpGoes(HeaderStep(ReadInto(res_buf, n), n = 0))
       ELSE /\ PumpGoes(HeaderStep(res_buf, eof))
            /\ UNCHANGED <<eof, rpos>>
    /\ UNCHANGED <<peer, stream, queue, eof_reads>>
    /\ UNCHANGED <<iovars, ownervars>>

\* The payload loop: one read and the turn that follows.
pump_payload ==
    /\ rpc = "payload"
    /\ \E n \in ReadOutcomes :
         IF n = ReadError
         THEN PumpGoes(ReadFailed) /\ UNCHANGED <<eof, rpos>>
         ELSE /\ rpos' = rpos + n
              /\ eof' = (eof \/ n = 0)
              /\ PumpGoes(PayloadStep(ReadInto(res_buf, n), frame, n))
    /\ eof_reads' = IF eof THEN eof_reads + 1 ELSE eof_reads
    /\ UNCHANGED <<peer, stream, queue>>
    /\ UNCHANGED <<iovars, ownervars>>

\* The capacity of mpsc::channel::<Ev>(1).
QueueCap == 1

\* A send into a channel without a bound.
MutPumpSend ==
    /\ rpc = "send"
    /\ queue' = Append(queue, pending)
    /\ pending' = NoEv
    /\ rpc' = "loop"
    /\ UNCHANGED <<peer, stream, rpos, res_buf, eof, exit, frame, tx_open, eof_reads>>
    /\ UNCHANGED <<iovars, ownervars>>

\* ev_tx.send(ev).await completes once the channel has room.
pump_send ==
    /\ rpc = "send"
    /\ Len(queue) < QueueCap
    /\ queue' = Append(queue, pending)
    /\ pending' = NoEv
    /\ rpc' = "loop"
    /\ UNCHANGED <<peer, stream, rpos, res_buf, eof, exit, frame, tx_open, eof_reads>>
    /\ UNCHANGED <<iovars, ownervars>>

\* ev_rx.recv().await: the oldest event, or None once the channel is empty and
\* ev_tx is gone.
owner_recv ==
    /\ ~closed
    /\ IF queue # <<>>
       THEN /\ recvd' = Append(recvd, Head(queue))
            /\ queue' = Tail(queue)
            /\ UNCHANGED closed
       ELSE /\ ~tx_open
            /\ closed' = TRUE
            /\ UNCHANGED <<recvd, queue>>
    /\ h_pc \in {"none", "ok"}
    /\ UNCHANGED <<h_pc, ocalls>>
    /\ UNCHANGED <<peer, stream, rpos, res_buf, eof, rpc, exit, frame, pending, tx_open, eof_reads>>
    /\ UNCHANGED iovars

\* The variables of the pump before Conn::new has run.
PumpIdle ==
    /\ peer = NoPeer
    /\ stream = <<>>
    /\ rpos = 0
    /\ res_buf = <<>>
    /\ eof = FALSE
    /\ rpc = "done"
    /\ exit = "none"
    /\ frame = NoFrame
    /\ pending = NoEv
    /\ queue = <<>>
    /\ tx_open = FALSE
    /\ eof_reads = 0
    /\ recvd = <<>>
    /\ closed = FALSE
    /\ h_pc = "none"
    /\ ocalls = <<>>

\* Conn::new over a transport whose peer sends bytes: the channel is created,
\* eof = false, res_buf is empty and recv_fut is spawned.
PumpStarted(st) ==
    /\ peer = st
    /\ stream = WireBytes(st.frames) \o st.tail
    /\ rpos = 0
    /\ res_buf = <<>>
    /\ eof = FALSE
    /\ rpc = "loop"
    /\ exit = "none"
    /\ frame = NoFrame
    /\ pending = NoEv
    /\ queue = <<>>
    /\ tx_open = TRUE
    /\ eof_reads = 0
    /\ recvd = <<>>
    /\ closed = FALSE
    /\ h_pc = "none"
    /\ ocalls = <<>>


\* ------------------------------------------------------ Conn::write_frame
\* A write_frame that leaves the length the caller set in the header.
MutStartWriteFrame(f, payload) ==
    StartWritevAll(<<EncodeHeader(f), payload>>)

\* payload.into_piece, frame.with_len(payload.len()), frame.into_piece, and the
\* vectored write of [header, payload], up to its first write.
StartWriteFrame(f, payload) ==
    StartWritevAll(<<EncodeHeader([f EXCEPT !.len = Len(payload)]), payload>>)

\* -------------------------------------------------------- Conn::handshake
\* b"PRI * HTTP/2.0\r\n\r\nSM\r\n\r\n"
Preface ==
    <<80, 82, 73, 32, 42, 32, 72, 84, 84, 80, 47, 50, 46, 48, 13, 10, 13, 10, 83, 77,
      13, 10, 13, 10>>

\* StreamId::CONNECTION
StreamConnection == 0

\* Settings::default() as into_piece encodes it: one 6-byte parameter stands for
\* the default parameters.
DefaultSettings == <<0, 3, 0, 0, 0, 100>>

\* Frame::new(FrameType::Settings(Default::default()), StreamId::CONNECTION)
SettingsFrame == MkFrame(TypeSettings, 0, StreamConnection, 0)

\* Frame::new(FrameType::Settings(BitFlags::empty() | SettingsFlags::Ack), StreamId::CONNECTION)
AckFrame == MkFrame(TypeSettings, FlagAck, StreamConnection, 0)

\* flags.contains(SettingsFlags::Ack)
HasAck(flags) == flags % 2 = 1

\* A match that acknowledges every SETTINGS frame, the ACK flag set or not.
MutOnEvent(some, ev) ==
    IF ~some THEN [act |-> "panic", frame |-> NoFrame, payload |-> <<>>]
    ELSE IF ev.kind = "Frame"
    THEN (IF ev.frame.frame_type = TypeSettings
          THEN [act |-> "write", frame |-> AckFrame, payload |-> ev.payload]
          ELSE [act |-> "panic", frame |-> NoFrame, payload |-> <<>>])
    ELSE [act |-> "panic", frame |-> NoFrame, payload |-> <<>>]

\* A match that acknowledges the first frame whatever its type.
MutOnEventAnyFrame(some, ev) ==
    IF ~some THEN [act |-> "panic", frame |-> NoFrame, payload |-> <<>>]
    ELSE IF ev.kind = "Frame"
    THEN (IF HasAck(ev.frame.flags)
          THEN [act |-> "panic", frame |-> NoFrame, payload |-> <<>>]
          ELSE [act |-> "write", frame |-> AckFrame, payload |-> ev.payload])
    ELSE [act |-> "panic", frame |-> NoFrame, payload |-> <<>>]

\* The match on the event handshake received (None when the queue had closed):
\* what handshake does next, and with which frame and payload.
OnEvent(some, ev) ==
    IF ~some THEN [act |-> "panic", frame |-> NoFrame, payload |-> <<>>]
    ELSE IF ev.kind = "Frame"
    THEN (IF ev.frame.frame_type = TypeSettings
          THEN (IF HasAck(ev.frame.flags)
                THEN [act |-> "panic", frame |-> NoFrame, payload |-> <<>>]
                ELSE [act |-> "write", frame |-> AckFrame, payload |-> ev.payload])
          ELSE [act |-> "panic", frame |-> NoFrame, payload |-> <<>>])
    ELSE [act |-> "panic", frame |-> NoFrame, payload |-> <<>>]

\* `?` on the result of a write helper: Err ends handshake with that error (a
\* failed assertion inside the helper is a panic), Ok lets it go on to next.
AfterWrite(res, next) ==
    IF res.kind = "ok" THEN next
    ELSE IF res.kind = "panic" THEN "panic"
    ELSE "err"

\* The record of a call of a Conn method, made as the call begins.
ConnCall(kind, f, payload) ==
    [kind |-> kind, frame |-> f, payload |-> payload, mark |-> Len(sink)]

\* No method of the connection is running (each takes &mut self), and the one
\* that ran last, if any, returned Ok: a caller stops at the first error, as
\* handshake does with `?`.
CallOver ==
    /\ h_pc \in {"idle", "ok"}
    /\ wpc \in {"idle", "done"}
    /\ wpc = "done" => result.kind = "ok"

\* handshake() is called: the preface is handed to write_all.
handshake_call ==
    /\ h_pc = "idle"
    /\ CallOver
    /\ Len(ocalls) < MaxCalls
    /\ StartWriteAll(Preface)
    /\ h_pc' = "preface"
    /\ ocalls' = Append(ocalls, ConnCall("handshake", NoFrame, <<>>))
    /\ UNCHANGED <<pumpvars, recvd, closed>>

\* The preface is written: the SETTINGS frame is handed to write_frame.
handshake_settings ==
    /\ h_pc = "preface"
    /\ wpc = "done"
    /\ h_pc' = AfterWrite(result, "settings")
    /\ IF result.kind = "ok"
       THEN StartWriteFrame(SettingsFrame, DefaultSettings)
       ELSE UNCHANGED iovars
    /\ UNCHANGED <<pumpvars, recvd, closed, ocalls>>

\* The SETTINGS frame is written: handshake goes on to self.ev_rx.recv().
handshake_wait ==
    /\ h_pc = "settings"
    /\ wpc = "done"
    /\ h_pc' = AfterWrite(result, "recv")
    /\ UNCHANGED <<iovars, pumpvars, recvd, closed, ocalls>>

\* self.ev_rx.recv().await returns, and the match on what it returned.
handshake_recv ==
    /\ h_pc = "recv"
    /\ queue # <<>> \/ ~tx_open
    /\ LET some == queue # <<>>
           ev == IF some THEN Head(queue) ELSE NoEv
           o == OnEvent(some, ev)
       IN /\ recvd' = IF some THEN Append(recvd, ev) ELSE recvd
          /\ closed' = ~some
          /\ queue' = IF some THEN Tail(queue) ELSE queue
          /\ IF o.act = "write"
             THEN h_pc' = "ack" /\ StartWriteFrame(o.frame, o.payload)
             ELSE h_pc' = "panic" /\ UNCHANGED iovars
    /\ UNCHANGED <<peer, stream, rpos, res_buf, eof, rpc, exit, frame, pending, tx_open, eof_reads>>
    /\ UNCHANGED ocalls

\* The ACK frame is written: handshake returns Ok(()).
handshake_return ==
    /\ h_pc = "ack"
    /\ wpc = "done"
    /\ h_pc' = AfterWrite(result, "ok")
    /\ UNCHANGED <<iovars, pumpvars, recvd, closed, ocalls>>

\* The streams a peer may answer a handshake with: a first frame of either type,
\* with or without the ACK flag, and an optional ACK SETTINGS frame after it; or
\* no frame at all, but nothing, a cut-off header or a bad header.
ConnFrameSeqs ==
    {<<WireFrame(1, t, fl, len)>> :
        t \in {TypeSettings, TypeData}, fl \in {0, FlagAck}, len \in 0..MaxPayload}
    \cup {<<WireFrame(1, t, fl, len), WireFrame(2, TypeSettings, FlagAck, 0)>> :
            t \in {TypeSettings, TypeData}, fl \in {0, FlagAck}, len \in 0..MaxPayload}

ConnStreams ==
    {[frames |-> wfs, tail |-> <<>>] : wfs \in ConnFrameSeqs}
    \cup {[frames |-> <<>>, tail |-> t] :
            t \in {<<>>, <<0>>, FrameBytes(WireFrame(1, TypeMalformed, 0, 0))}}

\* ------------------------------------------------- the callers of the layer
write_all_call ==
    /\ wpc = "idle"
    /\ \E list \in Inputs : Len(list) = 1 /\ StartWriteAll(list[1])
    /\ UNCHANGED <<pumpvars, ownervars>>

writev_call ==
    /\ wpc = "idle"
    /\ \E list \in Inputs : StartWritev(list)
    /\ UNCHANGED <<pumpvars, ownervars>>

writev_all_call ==
    /\ wpc = "idle"
    /\ \E list \in Inputs : StartWritevAll(list)
    /\ UNCHANGED <<pumpvars, ownervars>>

IoInit ==
    /\ op = "none"
    /\ wpc = "idle"
    /\ input = <<>>
    /\ wa_buf = <<>>
    /\ written = 0
    /\ wv_list = <<>>
    /\ wv_out = <<>>
    /\ wv_total = 0
    /\ result = NoResult
    /\ sink = <<>>
    /\ calls = <<>>

Init == IoInit /\ PumpIdle

Next ==
    \/ write_all_call
    \/ writev_call
    \/ writev_all_call
    \/ write_all_write
    \/ writev_write

Spec == Init /\ [][Next]_vars

\* The read loop alone: a stream is fixed, Conn::new has run, the owner receives.
InitPump ==
    /\ IoInit
    /\ \E st \in PumpStreams : PumpStarted(st)

NextPump ==
    \/ pump_loop
    \/ pump_payload
    \/ pump_send
    \/ owner_recv

SpecPump == InitPump /\ [][NextPump]_vars

\* The read loop with an owner that keeps receiving: a receive that can return
\* does return.
SpecPumpFair == SpecPump /\ WF_vars(owner_recv)

\* A connection: Conn::new has run over a stream, and the owner calls handshake().
InitConn ==
    /\ IoInit
    /\ \E st \in ConnStreams :
         /\ peer = st
         /\ stream = WireBytes(st.frames) \o st.tail
    /\ rpos = 0
    /\ res_buf = <<>>
    /\ eof = FALSE
    /\ rpc = "loop"
    /\ exit = "none"
    /\ frame = NoFrame
    /\ pending = NoEv
    /\ queue = <<>>
    /\ tx_open = TRUE
    /\ eof_reads = 0
    /\ recvd = <<>>
    /\ closed = FALSE
    /\ h_pc = "idle"
    /\ ocalls = <<>>

NextConn ==
    \/ pump_loop
    \/ pump_payload
    \/ pump_send
    \/ write_all_write
    \/ writev_write
    \/ handshake_call
    \/ handshake_settings
    \/ handshake_wait
    \/ handshake_recv
    \/ handshake_return
    \/ owner_recv

SpecConn == InitConn /\ [][NextConn]_vars

\* ------------------------------------- Conn::write_frame and Conn::send calls
\* The frames a caller hands to write_frame: their length field is whatever the
\* caller left in it, 0 or a length no payload has.
CallerFrames == {MkFrame(TypeData, 0, 1, len) : len \in {0, MaxPayload + 1}}

\* The payloads and buffers a caller hands over; each call has bytes of its own.
CallerPayloads == {Bytes(100 + 10 * Len(ocalls), n) : n \in {0, 2}}
CallerBufs == {Bytes(200 + 10 * Len(ocalls), 2)}

\* write_frame(frame, payload) is called.
write_frame_call ==
    /\ CallOver
    /\ Len(ocalls) < MaxCalls
    /\ \E f \in CallerFrames, payload \in CallerPayloads :
         /\ StartWriteFrame(f, payload)
         /\ ocalls' = Append(ocalls, ConnCall("write_frame", f, payload))
    /\ UNCHANGED <<pumpvars, recvd, closed, h_pc>>

\* send(buf) is called.
send_call ==
    /\ CallOver
    /\ Len(ocalls) < MaxCalls
    /\ \E buf \in CallerBufs :
         /\ StartWriteAll(buf)
         /\ ocalls' = Append(ocalls, ConnCall("send", NoFrame, buf))
    /\ UNCHANGED <<pumpvars, recvd, closed, h_pc>>

\* The streams a peer answers with while the owner writes: nothing at all, or a
\* SETTINGS frame that lets a handshake go through.
WriteStreams ==
    {[frames |-> <<>>, tail |-> <<>>],
     [frames |-> <<WireFrame(1, TypeSettings, 0, 1)>>, tail |-> <<>>]}

\* A connection whose owner calls handshake, write_frame and send in any order.
InitWrite ==
    /\ IoInit
    /\ \E st \in WriteStreams :
         /\ peer = st
         /\ stream = WireBytes(st.frames) \o st.tail
    /\ rpos = 0
    /\ res_buf = <<>>
    /\ eof = FALSE
    /\ rpc = "loop"
    /\ exit = "none"
    /\ frame = NoFrame
    /\ pending = NoEv
    /\ queue = <<>>
    /\ tx_open = TRUE
    /\ eof_reads = 0
    /\ recvd = <<>>
    /\ closed = FALSE
    /\ h_pc = "idle"
    /\ ocalls = <<>>

NextWrite ==
    \/ pump_loop
    \/ pump_payload
    \/ pump_send
    \/ write_all_write
    \/ writev_write
    \/ handshake_call
    \/ handshake_settings
    \/ handshake_wait
    \/ handshake_recv
    \/ handshake_return
    \/ write_frame_call
    \/ send_call

SpecWrite == InitWrite /\ [][NextWrite]_vars

\* ------------------------------------------------------------------ claims
\* Every write so far reported at least one byte (no zero, no I/O error).
AllProgress == \A i \in 1..Len(calls) : calls[i].n >= 1

\* Every write that was offered a non-empty region accepted at least one byte of
\* it, a write offered nothing accepted nothing, and none failed.
PartialSchedule ==
    \A i \in 1..Len(calls) :
        /\ calls[i].n # IoError
        /\ calls[i].len > 0 => calls[i].n >= 1

RECURSIVE SumCalls(_)
SumCalls(cs) == IF cs = <<>> THEN 0
                ELSE (IF Head(cs).n = IoError THEN 0 ELSE Head(cs).n) + SumCalls(Tail(cs))

\* C1: for every list of buffers and every schedule of partial-write sizes,
\* writev_all returns success and the sink has received exactly the
\* concatenation of the input buffers, in list order.
C1_WritevAllDelivers ==
    (op = "writev_all" /\ wpc = "done" /\ PartialSchedule)
        => (result.kind = "ok" /\ sink = Flatten(input))

\* The same for lists none of whose buffers is empty: there writev_all succeeds
\* and delivers the concatenation.
C1_NonEmptyBuffers ==
    (op = "writev_all" /\ wpc = "done" /\ PartialSchedule
        /\ \A i \in 1..Len(input) : Len(input[i]) > 0)
        => (result.kind = "ok" /\ sink = Flatten(input))

\* C2: write_all returns success if and only if every underlying write reported
\* at least one byte; when it does, the sink holds exactly the buffer's bytes,
\* each once and in order; at every moment the sink holds a prefix of the buffer,
\* the first `written` bytes.
C2_WriteAllDelivers ==
    op = "write_all" =>
        /\ IsPrefix(sink, wa_buf)
        /\ wpc = "write_all" => Len(sink) = written
        /\ wpc = "done" =>
             /\ result.kind = "ok" <=> AllProgress
             /\ result.kind = "ok" => sink = wa_buf

C2_Witness ==
    /\ op = "write_all" /\ wpc = "done" /\ result.kind = "ok"
    /\ Len(calls) >= 2 /\ Len(wa_buf) >= 3

NonEmptyInput == IF op = "write_all" THEN Len(wa_buf) > 0 ELSE input # <<>>

\* C3: a write that reports 0 bytes or an I/O error is the last write the helper
\* issues, and the helper returns write-zero, respectively that error; over a
\* sink whose every call reports 0, write_all and writev_all on non-empty input
\* fail with write-zero after one call, with nothing sent.
C3_FailFast ==
    /\ \A i \in 1..Len(calls) :
         calls[i].n \in {0, IoError} =>
            /\ i = Len(calls)
            /\ wpc = "done"
            /\ result.kind = IF calls[i].n = 0 THEN "write_zero" ELSE "io_error"
    /\ (/\ wpc = "done" /\ op \in {"write_all", "writev_all"} /\ NonEmptyInput
        /\ \A i \in 1..Len(calls) : calls[i].n = 0)
         => (result.kind = "write_zero" /\ Len(calls) = 1 /\ sink = <<>>)

C3_Witness ==
    /\ op = "writev_all" /\ wpc = "done" /\ result.kind = "write_zero"
    /\ Len(calls) >= 3 /\ sink # <<>>
    /\ calls[Len(calls)].len > 0

\* C4: writev writes the elements in order, one write each, and stops at the
\* first element whose write reports zero, fewer bytes than its length, or an
\* error; stopping on a partial write it returns the count of all bytes written
\* and a list that holds the element it stopped at and every later element, in
\* order (the list is the whole input list: the fully written elements come
\* first).
C4_WritevStops ==
    (op = "writev" /\ wpc = "done") =>
        LET k == Len(calls)
            m == Len(input)
        IN /\ k <= m
           /\ \A i \in 1..k : calls[i].len = Len(input[i])
           /\ \A i \in 1..(k - 1) : calls[i].n = calls[i].len /\ calls[i].n > 0
           /\ k < m => (calls[k].n = IoError \/ calls[k].n = 0 \/ calls[k].n < calls[k].len)
           /\ (k > 0 /\ calls[k].n > 0 /\ calls[k].n < calls[k].len) =>
                /\ result.kind = "ok"
                /\ result.n = SumCalls(calls)
                /\ result.n = Len(sink)
                /\ Len(result.list) = m
                /\ \A j \in k..m : result.list[j] = Buf(input[j])
                /\ result.list = WrapAll(input)

C4_Witness ==
    /\ op = "writev" /\ wpc = "done" /\ result.kind = "ok"
    /\ Len(calls) = 2 /\ Len(input) = 3
    /\ calls[2].n > 0 /\ calls[2].n < calls[2].len

\* ------------------------------------------------- claims on the read loop
\* Every event the read loop has enqueued so far, in order.
Emitted == recvd \o queue

\* The Frame events of a sequence of whole frames.
Events(wfs) == [k \in 1..Len(wfs) |-> FrameEv(wfs[k].frame, wfs[k].payload)]

WellFormed == peer.tail = <<>>
BadHeader == Len(peer.tail) >= HeaderLen /\ peer.tail[4] = TypeMalformed
CutOff == peer.tail # <<>> /\ ~BadHeader

\* C5: over a stream of well-formed frames, however the transport chunks it, the
\* read loop emits the frames' events in stream order, each with its frame's
\* header and payload, and when it ends (no read having failed) it has emitted
\* exactly one event per frame.
C5_OneEventPerFrame ==
    WellFormed =>
        /\ IsPrefix(Emitted, Events(peer.frames))
        /\ (rpc = "done" /\ exit # "io_error") =>
              (exit = "eof" /\ Emitted = Events(peer.frames))

C5_Witness ==
    /\ WellFormed /\ exit = "eof" /\ Len(recvd) = 2
    /\ recvd[1].payload # <<>> /\ recvd[2].payload # <<>>

AllEvents == recvd \o queue \o (IF rpc = "send" THEN <<pending>> ELSE <<>>)

\* C6: every Frame event the read loop builds carries a payload of exactly the
\* length its header declares, and the assertion that says so never fails.
C6_PayloadLength ==
    /\ \A i \in 1..Len(AllEvents) :
         AllEvents[i].kind = "Frame" =>
            Len(AllEvents[i].payload) = AllEvents[i].frame.len
    /\ exit # "panic_assert"

C6_Witness ==
    /\ Len(recvd) = 2
    /\ recvd[1].frame.len = 0
    /\ recvd[2].frame.len = MaxPayload /\ Len(recvd[2].payload) = MaxPayload

\* C7: when the stream ends inside a frame, the read loop ends in a fatal abort
\* (incomplete header, or incomplete payload), it emits no event for the cut-off
\* frame, and every frame completed before it has been emitted.
C7_EofMidFrame ==
    CutOff =>
        /\ IsPrefix(Emitted, Events(peer.frames))
        /\ (rpc = "done" /\ exit # "io_error") =>
              /\ exit = IF Len(peer.tail) < HeaderLen THEN "panic_header" ELSE "panic_payload"
              /\ Emitted = Events(peer.frames)
              /\ eof

C7_Witness ==
    /\ CutOff /\ exit = "panic_payload" /\ Len(recvd) = 2

C7_WitnessHeader ==
    /\ CutOff /\ exit = "panic_header" /\ Len(recvd) = 2

\* C8: a read that reports EOF while nothing is buffered ends the read loop
\* cleanly: no abort, no event for the EOF, the sender dropped; a loop that
\* ended cleanly has emitted the stream's frames and nothing else, and over the
\* empty stream nothing at all.
C8_CleanEof ==
    /\ [][(rpc = "loop" /\ ~eof /\ eof' /\ res_buf = <<>>) =>
            (rpc' = "done" /\ exit' = "eof" /\ ~tx_open' /\ queue' = queue)]_vars
    /\ [](exit = "eof" =>
            (rpc = "done" /\ ~tx_open /\ res_buf = <<>> /\ Emitted = Events(peer.frames)))
    /\ [](stream = <<>> => (Emitted = <<>> /\ exit \in {"none", "eof", "io_error"}))
    /\ [](closed => ~tx_open)

C8_Witness ==
    /\ stream = <<>> /\ rpos = 0 /\ exit = "eof" /\ closed /\ recvd = <<>>

\* C9: a read that fails in the read loop is delivered to the owner as an
\* IoError event, and the loop ends.
C9_IoErrorDelivered ==
    exit = "io_error" =>
        /\ rpc = "done"
        /\ Emitted # <<>>
        /\ Emitted[Len(Emitted)].kind = "IoError"

\* What the loop does on a failed read: it ends at once, no event is enqueued
\* for the error, and the sender is dropped.
C9_IoErrorEndsLoop ==
    [][(exit = "none" /\ exit' = "io_error") =>
            (rpc' = "done" /\ queue' = queue /\ ~tx_open' /\ rpos' = rpos)]_vars

\* ------------------------------------------------- claims on the handshake
\* The bytes of the write half after the first n.
SinkFrom(n) == SubSeq(sink, n + 1, Len(sink))

\* The length of the SETTINGS frame handshake writes after the preface.
SettingsLen == HeaderLen + Len(DefaultSettings)

\* The wire holds a whole frame of the given type and ACK flag on the
\* connection stream, and nothing after it.
IsOneFrame(bytes, type, ack) ==
    LET p == Parse(bytes)
    IN /\ p.kind = "ok"
       /\ p.frame.frame_type = type
       /\ HasAck(p.frame.flags) = ack
       /\ p.frame.stream_id = StreamConnection
       /\ Len(p.rest) = p.frame.len

\* C10: the write half of a connection that handshakes receives the preface,
\* then one SETTINGS frame with the default parameters, then one ACK SETTINGS
\* frame, and nothing else; a byte of the ACK frame is written only after the
\* peer's non-ACK SETTINGS frame was received as the first event; a handshake
\* that returns Ok has written all three, whole.
C10_HandshakeWrites ==
    h_pc # "none" =>
        LET two == Len(Preface) + SettingsLen
        IN /\ IsPrefix(SubSeq(sink, 1, Min(Len(sink), Len(Preface))), Preface)
           /\ Len(sink) > Len(Preface) => h_pc # "preface"
           /\ h_pc \in {"recv", "ack", "ok"} =>
                /\ Len(sink) >= two
                /\ SubSeq(sink, 1, Len(Preface)) = Preface
                /\ IsOneFrame(SubSeq(sink, Len(Preface) + 1, two), TypeSettings, FALSE)
                /\ SubSeq(sink, Len(Preface) + HeaderLen + 1, two) = DefaultSettings
           /\ Len(sink) > two =>
                /\ h_pc \in {"ack", "ok", "err"}
                /\ recvd # <<>>
                /\ recvd[1].kind = "Frame"
                /\ recvd[1].frame.frame_type = TypeSettings
                /\ ~HasAck(recvd[1].frame.flags)
                /\ recvd[1] = Events(peer.frames)[1]
                /\ Len(SinkFrom(two)) >= HeaderLen =>
                     LET p == Parse(SinkFrom(two))
                     IN /\ p.kind = "ok"
                        /\ p.frame.frame_type = TypeSettings
                        /\ HasAck(p.frame.flags)
                        /\ p.frame.stream_id = StreamConnection
                        /\ Len(p.rest) <= p.frame.len
           /\ h_pc = "ok" => IsOneFrame(SinkFrom(two), TypeSettings, TRUE)

C10_Witness ==
    /\ h_pc = "ok"
    /\ Len(sink) > Len(Preface) + SettingsLen + HeaderLen
    /\ Len(peer.frames) = 2

\* C11: the ACK SETTINGS frame handshake writes declares length 0 and has no
\* payload, whatever the payload of the peer's SETTINGS frame was: once its
\* header is on the wire the header's length field is 0, and a handshake that
\* returned Ok has written nothing after that header.
C11_AckEmpty ==
    LET two == Len(Preface) + SettingsLen
    IN /\ (h_pc \in {"ack", "ok", "err"} /\ Len(sink) >= two + HeaderLen) =>
            /\ Parse(SinkFrom(two)).frame.len = 0
            /\ Len(sink) = two + HeaderLen
       /\ h_pc = "ok" => Len(sink) = two + HeaderLen

\* The first event handshake may answer: a SETTINGS frame without the ACK flag.
IsNonAckSettings(ev) ==
    /\ ev.kind = "Frame"
    /\ ev.frame.frame_type = TypeSettings
    /\ ~HasAck(ev.frame.flags)

\* handshake is past its self.ev_rx.recv().
PastRecv == h_pc \in {"ack", "ok", "err", "panic"} /\ (recvd # <<>> \/ closed)

\* What that recv() returned was not a SETTINGS frame without the ACK flag:
\* None (the queue had closed with nothing in it), or another event.
FirstIsBad == IF recvd = <<>> THEN closed ELSE ~IsNonAckSettings(recvd[1])

\* C12: handshake takes exactly one event (or the closure of the queue) after
\* it wrote the preface and its SETTINGS frame; when that is anything but a
\* SETTINGS frame without the ACK flag (a SETTINGS frame with it, a frame of
\* another type, an IoError or Eof event, the closure) handshake panics: it
\* does not return Ok and writes no byte of an ACK frame.
C12_FirstEvent ==
    /\ h_pc \in {"idle", "preface", "settings", "recv"} => (recvd = <<>> /\ ~closed)
    /\ h_pc \in {"ack", "panic"} /\ PastRecv =>
         /\ Len(recvd) + (IF closed THEN 1 ELSE 0) = 1
         /\ closed \/ recvd[1] = Events(peer.frames)[1]
    /\ (PastRecv /\ FirstIsBad) =>
         /\ h_pc = "panic"
         /\ sink = Preface \o FrameBytes([frame |-> [SettingsFrame EXCEPT !.len = Len(DefaultSettings)],
                                          payload |-> DefaultSettings])
    /\ h_pc = "panic" => (PastRecv /\ FirstIsBad)
    /\ \A k \in {"IoError", "Eof"} :
         OnEvent(TRUE, [NoEv EXCEPT !.kind = k]).act = "panic"
    /\ OnEvent(FALSE, NoEv).act = "panic"

C12_Witness ==
    /\ h_pc = "panic"
    /\ Len(recvd) = 1
    /\ recvd[1].kind = "Frame"
    /\ recvd[1].frame.frame_type = TypeData
    /\ queue # <<>>

C12_WitnessClosed == h_pc = "panic" /\ closed /\ recvd = <<>>

\* ------------------------------------------ claims on the frames Conn writes
\* A frame, or the beginning of one, whose header declares the length of the
\* payload that follows it.
IsFrameStart(bytes, whole) ==
    IF Len(bytes) < HeaderLen THEN ~whole
    ELSE LET p == Parse(bytes)
         IN /\ p.kind = "ok"
            /\ Len(p.rest) <= p.frame.len
            /\ whole => Len(p.rest) = p.frame.len

\* What call c of a Conn method has put on the wire is what it was asked to
\* write, or (while it runs, or when it failed) a prefix of that.
CallWrote(c, out, whole) ==
    IF c.kind = "send"
    THEN IsPrefix(out, c.payload) /\ (whole => out = c.payload)
    ELSE IF c.kind = "write_frame"
    THEN LET header == EncodeHeader([c.frame EXCEPT !.len = Len(c.payload)])
         IN /\ IsPrefix(out, header \o c.payload)
            /\ whole => out = header \o c.payload
            /\ Len(out) >= HeaderLen =>
                 /\ Parse(out).frame.len = Len(c.payload)
                 /\ IsPrefix(Parse(out).rest, c.payload)
    ELSE LET two == Len(Preface) + SettingsLen
             rest == SubSeq(out, two + 1, Len(out))
         IN /\ IsPrefix(SubSeq(out, 1, Min(Len(out), two)),
                        Preface \o EncodeHeader([SettingsFrame EXCEPT !.len = Len(DefaultSettings)])
                                \o DefaultSettings)
            /\ Len(out) > two => IsFrameStart(rest, whole)
            /\ whole => Len(out) > two

\* The last call has returned Ok.
LastCallOk ==
    /\ ocalls # <<>>
    /\ IF ocalls[Len(ocalls)].kind = "handshake"
       THEN h_pc = "ok"
       ELSE wpc = "done" /\ result.kind = "ok"

\* C13: the header write_frame writes declares the length of the payload it was
\* given, whatever length the caller's frame had, and the write half receives
\* that header followed at once by that payload, whole when write_frame returns
\* Ok, however the writes were split; over any sequence of handshake,
\* write_frame and send calls the write half holds what each call wrote, one
\* call after the other, and no byte it accepted is ever changed.
C13_FramesContiguous ==
    /\ [](\A i \in 1..Len(ocalls) :
            LET c == ocalls[i]
                last == i = Len(ocalls)
                end == IF last THEN Len(sink) ELSE ocalls[i + 1].mark
            IN /\ c.mark <= end
               /\ end <= Len(sink)
               /\ CallWrote(c, SubSeq(sink, c.mark + 1, end), ~last \/ LastCallOk))
    /\ [](ocalls = <<>> => sink = <<>>)
    /\ [][IsPrefix(sink, sink')]_vars

C13_Witness ==
    /\ Len(ocalls) = 2
    /\ ocalls[1].kind = "write_frame"
    /\ ocalls[1].frame.len # Len(ocalls[1].payload)
    /\ ocalls[2].kind = "handshake"
    /\ h_pc = "ok"

\* A partial write has split the header of a frame.
C13_WitnessSplit ==
    /\ ocalls # <<>>
    /\ ocalls[Len(ocalls)].kind = "write_frame"
    /\ wpc = "writev"
    /\ wv_list # <<>>
    /\ wv_list[1].tag = "Slice"
    /\ Len(sink) - ocalls[Len(ocalls)].mark \in 1..(HeaderLen - 1)

\* -------------------------------------------------- claims on the event queue
\* C14: the queue never holds more than one event; an enqueue completes only
\* when the queue is empty, so the producer stays suspended on its send while
\* the event before it has not been dequeued; while it is suspended there it
\* submits no read and decodes nothing; at most one decoded frame exists beyond
\* the one in the queue, the one the send is suspended on.
C14_QueueOfOne ==
    /\ [](Len(queue) <= 1)
    /\ [](pending # NoEv <=> rpc = "send")
    /\ [][Len(queue') > Len(queue) => (queue = <<>> /\ queue' = <<pending>>)]_vars
    /\ [][(rpc = "send" /\ queue # <<>>) =>
            (rpc' = "send" /\ pending' = pending /\ rpos' = rpos /\ res_buf' = res_buf
             /\ eof' = eof /\ eof_reads' = eof_reads)]_vars

\* The producer is suspended on its send behind an event nobody has taken yet,
\* with bytes of the stream still unread.
C14_Witness ==
    /\ rpc = "send"
    /\ Len(queue) = 1
    /\ rpos < Len(stream)

\* ------------------------------------- claims on writev_all's bookkeeping
\* The bytes the elements of a list still have to offer, in list order.
RegionsOf(list) == Flatten([i \in 1..Len(list) |-> Region(list[i])])

\* list is the tail of the input list: its elements are the last input buffers,
\* in order, and only the first of them may have been consumed in part.
IsInputTail(list) ==
    /\ Len(list) <= Len(input)
    /\ \A i \in 1..Len(list) :
         /\ list[i].buf = input[Len(input) - Len(list) + i]
         /\ i > 1 => list[i] = Buf(list[i].buf)

\* C15: in writev_all the byte count of every successful writev is used up
\* exactly by the distribution pass, whatever the input list and however much
\* of what it was offered each write reports: assert_eq!(n, 0) never fails, and
\* what the list still offers is always the input less the bytes written
\* (elements wholly written are dropped, the first one written in part is
\* advanced by the remainder, later ones are untouched).
C15_CountUsedUp ==
    op = "writev_all" =>
        /\ result.kind # "panic"
        /\ wpc = "writev" =>
             /\ sink \o RegionsOf(wv_list) = Flatten(input)
             /\ IsInputTail(wv_list)

\* writev_all went through a partial write that was not its last write and
\* through a write that covered an element exactly, and returned Ok.
C15_Witness ==
    /\ op = "writev_all"
    /\ wpc = "done"
    /\ result.kind = "ok"
    /\ Len(input) = MaxBufs
    /\ \E i \in 1..Len(calls) : i < Len(calls) /\ calls[i].n \in 1..(calls[i].len - 1)
    /\ \E i \in 1..Len(calls) : calls[i].n = calls[i].len

\* The elements writev_all tracks in the current round, in list order: those
\* writev has written and pushed to out_list, then those it has not reached.
Tracked == wv_out \o wv_list

\* C16: for each element writev_all tracks, the consumed offset never decreases
\* and never exceeds the buffer's initialized length; an element is a whole
\* buffer at offset 0 until its first partial write makes it a slice, a slice
\* stays a slice whose offset is the previous one plus the bytes newly written
\* (so the offset is the number of bytes of the buffer in the sink), and no slice
\* becomes a whole buffer again; the n <= len that consume asserts always holds.
C16_OffsetsAdvance ==
    /\ [](op = "writev_all" =>
            /\ result.kind # "panic"
            /\ \A i \in 1..Len(Tracked) :
                 LET item == Tracked[i]
                 IN /\ item.begin >= 0
                    /\ item.begin <= Len(item.buf)
                    /\ item.tag = "Buf" => item.begin = 0
                    /\ item.tag = "Slice" => item.begin \in 1..(Len(item.buf) - 1))
    /\ [][(op = "writev_all" /\ wpc = "writev") =>
            /\ Len(Tracked') <= Len(Tracked)
            /\ wv_out' # <<>> => Tracked' = Tracked
            /\ \A e \in 0..(Len(Tracked') - 1) :
                 LET old == Tracked[Len(Tracked) - e]
                     new == Tracked'[Len(Tracked') - e]
                     grown == new.begin - old.begin
                 IN /\ new.buf = old.buf
                    /\ grown >= 0
                    /\ old.tag = "Slice" => new.tag = "Slice"
                    /\ new.tag = "Slice" <=> (old.tag = "Slice" \/ grown > 0)
                    /\ wv_out' = <<>> =>
                         grown = IF e = Len(wv_list) - 1 THEN Len(sink') - Len(sink) ELSE 0
                    /\ SubSeq(sink', Len(sink') - grown + 1, Len(sink'))
                         = SubSeq(old.buf, old.begin + 1, new.begin)]_vars

\* A slice was advanced a second time.
C16_Witness ==
    /\ op = "writev_all"
    /\ wpc = "writev"
    /\ Len(calls) = 2
    /\ calls[1].n = 1
    /\ calls[2].n = 1
    /\ wv_list[1] = Slice(input[1], 2)

\* C17: no underlying write issued by write_all, writev or writev_all is given a
\* region of length 0, in any round and for every input buffer or list.
C17_NoZeroLengthWrite == \A i \in 1..Len(calls) : calls[i].len > 0

\* The same for write_all on any buffer, and for writev and writev_all on lists
\* none of whose buffers is empty.
C17_NonEmptyBuffers ==
    (\A i \in 1..Len(input) : Len(input[i]) > 0 \/ op = "write_all")
        => \A i \in 1..Len(calls) : calls[i].len > 0

\* ---------------------------------------------- claims on the loop's exits
\* C18: when the parse of a header fails with a decode error (not for want of
\* bytes) the read loop ends without a panic: the events it has emitted are
\* those of the whole frames before the bad header and it emits none after,
\* from bytes buffered or unread; it reads no more; its sending end is dropped
\* in that step, so the owner, having received what was queued, observes the
\* closure on its next receive.
C18_DecodeErrorEndsLoop ==
    /\ [](exit = "parse_error" =>
            /\ BadHeader
            /\ rpc = "done"
            /\ ~tx_open
            /\ Emitted = Events(peer.frames)
            /\ pending = NoEv
            /\ closed => (queue = <<>> /\ recvd = Events(peer.frames)))
    /\ [](BadHeader => /\ exit \in {"none", "parse_error", "io_error"}
                       /\ IsPrefix(Emitted, Events(peer.frames))
                       /\ closed => exit # "none")
    /\ [][exit = "parse_error" =>
            (rpos' = rpos /\ res_buf' = res_buf /\ Emitted' = Emitted /\ exit' = exit
             /\ Len(queue') <= Len(queue))]_vars
    /\ [][(exit = "parse_error" /\ queue = <<>> /\ recvd' = recvd /\ ~closed)
            => closed' \/ UNCHANGED vars]_vars

\* The loop met a bad header with a frame before it still in the queue and a
\* whole frame after it on the stream; the owner has since observed the closure.
C18_Witness ==
    /\ exit = "parse_error"
    /\ closed
    /\ Len(recvd) = MaxFrames
    /\ Len(peer.tail) > HeaderLen

C18_WitnessQueued ==
    /\ exit = "parse_error"
    /\ queue # <<>>
    /\ rpos < Len(stream)

\* C19: however the read loop exits (clean EOF, decode error, failed read,
\* panic) its sending end is dropped in that step; from then on the events
\* emitted stay as they are, the owner receives those still queued in the order
\* they were sent, observes no closure before it has them all, and, if it keeps
\* receiving, eventually observes the closure.
C19_ExitClosesQueue ==
    /\ [](rpc = "done" <=> exit # "none")
    /\ [](rpc = "done" <=> ~tx_open)
    /\ [](closed => (rpc = "done" /\ queue = <<>>))
    /\ [][recvd' \o queue' = recvd \o queue \/ (rpc = "send" /\ recvd' \o queue' = Append(recvd \o queue, pending))]_vars
    /\ [][rpc = "done" => (recvd' \o queue' = recvd \o queue /\ rpc' = "done" /\ ~tx_open')]_vars
    /\ (rpc = "done") ~> closed

\* The loop panicked in the middle of a payload after it had emitted a frame,
\* and the owner has received that frame and then observed the closure.
C19_Witness ==
    /\ exit = "panic_payload"
    /\ closed
    /\ recvd # <<>>

C19_WitnessIoError == exit = "io_error" /\ closed /\ recvd # <<>>

C19_WitnessEof == exit = "eof" /\ closed /\ Len(recvd) = MaxFrames

\* ------------------------------------------------ claims on termination
\* The bytes a helper still has to send, by its own bookkeeping.
Unsent == IF op = "write_all" THEN Len(wa_buf) - written ELSE Len(RegionsOf(wv_list))

\* The helper is in a round: its next step is a write.
Running == wpc \in {"write_all", "writev"}

\* C20: write_all and writev_all terminate. Every step of a running helper is
\* one write call, after which it has returned or has strictly fewer bytes left
\* to send, and a running helper can always take its step; so when every write
\* reports at least one byte the calls number at most the bytes of the input
\* (len for write_all, the total for writev_all) and the helper returns Ok with
\* nothing left, writev_all with an empty list; a write that reports 0 or an
\* error is the last call, the helper returning at it.
C20_Terminates ==
    /\ [](op \in {"write_all", "writev_all"} =>
            /\ Unsent >= 0
            /\ AllProgress => Len(calls) + Unsent <= SumLens(input)
            /\ (wpc = "done" /\ AllProgress) =>
                 (result.kind = "ok" /\ Unsent = 0 /\ wv_list = <<>> /\ sink = Flatten(input))
            /\ wpc = "write_all" => ENABLED write_all_write
            /\ wpc = "writev" => ENABLED writev_write
            /\ \A i \in 1..Len(calls) :
                 calls[i].n \in {0, IoError} =>
                     (i = Len(calls) /\ wpc = "done" /\ result.kind \in {"write_zero", "io_error"}))
    /\ [][(op \in {"write_all", "writev_all"} /\ Running) =>
            /\ Len(calls') = Len(calls) + 1
            /\ wpc' = "done" \/ Unsent' < Unsent
            /\ calls'[Len(calls')].n >= 1 => Unsent' < Unsent]_vars

\* The longest run: a list of the most and longest buffers, sent one byte a call.
C20_Witness ==
    /\ op = "writev_all"
    /\ wpc = "done"
    /\ result.kind = "ok"
    /\ Len(calls) = SumLens(input)
    /\ SumLens(input) = MaxBufs * MaxBufLen

\* ------------------------------------------------ claims on reads after EOF
\* C21: once a read of the read loop has returned 0 bytes the loop submits no
\* other read to the transport, at the top of the loop and in the payload loop
\* alike, also when the EOF was observed with a whole header buffered whose
\* payload is not.
C21_NoReadAfterEof == eof_reads = 0

\* The same for the top of the loop alone: with eof set, a turn of 'read
\* submits no read.
C21_HeaderPhase ==
    [][(rpc = "loop" /\ eof) => (rpos' = rpos /\ eof' = eof /\ eof_reads' = eof_reads)]_vars

====
